---- MODULE Spec2Model ----
(***************************************************************************)
(* A model of csv2db's common functions (src/src/python/functions.py):     *)
(* format_list, read_header, open_file, find_all_files, get_db_connection  *)
(* and get_default_db_port, and of the batch loader the specification      *)
(* describes around them.                                                  *)
(*                                                                         *)
(* Python strings are sequences of one-character strings, so that replace, *)
(* strip, upper, endswith and glob matching are computed character by      *)
(* character.  None is the record [type |-> "NoneType"], a list l is       *)
(* [type |-> "list", items |-> l].  A call's outcome is a record           *)
(* [kind |-> "return", value |-> v] or [kind |-> "raise", exc |-> name].   *)
(***************************************************************************)
EXTENDS Integers, Sequences, FiniteSets, TLC

VARIABLES
    call,      \* the call being observed: its name and its arguments
    ret,       \* its outcome: a returned value or a raised exception
    reader,    \* the csv reader: the rows it has still to yield
    disk,      \* open_file: what is stored at the path
    stream,    \* open_file: the stream handed to the caller
    handles,   \* open_file: the handles that are open
    fs,        \* find_all_files: the directories and the names in each
    env,       \* get_db_connection: installed driver modules, server's answer
    batch,     \* batch loader: the records buffered
    executed,  \* batch loader: the batches handed to executeBatch, in order
    pc         \* batch loader / open_file: position in the run

vars == <<call, ret, reader, disk, stream, handles, fs, env, batch, executed, pc>>

-----------------------------------------------------------------------------
(* Python values *)

None == [type |-> "NoneType"]

PyList(l) == [type |-> "list", items |-> l]

Return(v) == [kind |-> "return", value |-> v]

Raise(e) == [kind |-> "raise", exc |-> e]

NoCall == [op |-> "none"]

NoRet == [kind |-> "none"]

Idle == <<>>

-----------------------------------------------------------------------------
(* Strings *)

\* The characters of the model: the double quote, the space, another
\* whitespace character, a lower-case and an upper-case letter.
Chars == {"\"", " ", "\t", "a", "B"}

\* What str.strip() with no argument removes.
Whitespace == {" ", "\t"}

\* str.upper(), one character.
UpperChar(c) == IF c = "a" THEN "A" ELSE c

\* str.upper()
str_upper(s) == [i \in 1..Len(s) |-> UpperChar(s[i])]

\* str.replace(old, new) for a one-character old; new is a string.
RECURSIVE str_replace(_, _, _)
str_replace(s, old, new) ==
    IF s = <<>> THEN <<>>
    ELSE (IF Head(s) = old THEN new ELSE <<Head(s)>>) \o str_replace(Tail(s), old, new)

RECURSIVE str_lstrip(_)
str_lstrip(s) ==
    IF s # <<>> /\ Head(s) \in Whitespace THEN str_lstrip(Tail(s)) ELSE s

RECURSIVE str_rstrip(_)
str_rstrip(s) ==
    IF s # <<>> /\ s[Len(s)] \in Whitespace THEN str_rstrip(SubSeq(s, 1, Len(s) - 1)) ELSE s

\* str.strip()
str_strip(s) == str_rstrip(str_lstrip(s))

\* str.endswith(suffix)
str_endswith(s, suffix) ==
    /\ Len(s) >= Len(suffix)
    /\ SubSeq(s, Len(s) - Len(suffix) + 1, Len(s)) = suffix

-----------------------------------------------------------------------------
(* format_list *)

\* Python truthiness of format_list's argument: None and the empty list are falsy.
Falsy(v) == v = None \/ (v.type = "list" /\ v.items = <<>>)

\* A faulty variant: whitespace is trimmed before the quotes are removed.
FormatColStripFirst(col, header) ==
    LET val == str_replace(str_strip(col), "\"", <<>>)
    IN  IF header THEN str_upper(str_replace(val, " ", <<"_">>)) ELSE val

\* The loop body: val = col.replace('"', '').strip(), and for a header
\* val = val.replace(' ', '_').upper().
FormatCol(col, header) ==
    LET val == str_strip(str_replace(col, "\"", <<>>))
    IN  IF header THEN str_upper(str_replace(val, " ", <<"_">>)) ELSE val

\* A faulty variant: only None is skipped, an empty list is formatted.
format_list_none_only(input_list, header) ==
    IF input_list = None THEN None
    ELSE PyList([i \in 1..Len(input_list.items) |-> FormatCol(input_list.items[i], header)])

format_list(input_list, header) ==
    IF Falsy(input_list) THEN None
    ELSE PyList([i \in 1..Len(input_list.items) |-> FormatCol(input_list.items[i], header)])

\* reader.__next__(): the next row, or StopIteration when none is left.
\* read_header returns format_list(reader.__next__(), True); an exception of
\* __next__ leaves read_header unchanged.
read_header(rd) ==
    IF rd = <<>> THEN Raise("StopIteration")
    ELSE Return(format_list(PyList(Head(rd)), TRUE))

-----------------------------------------------------------------------------
(* Inputs of format_list and read_header *)

MaxLen == 3

MaxFields == 2

RECURSIVE StringsOfLen(_)
StringsOfLen(n) ==
    IF n = 0 THEN {<<>>}
    ELSE {<<c>> \o s : c \in Chars, s \in StringsOfLen(n - 1)}

\* Every string of at most MaxLen characters.
Fields == UNION {StringsOfLen(n) : n \in 0..MaxLen}

\* The field at the positions of a row that are not varied.
FillerField(i) == IF i % 2 = 1 THEN <<" ", "a", "\"">> ELSE <<"B", " ", "a", "\t">>

\* Rows of up to MaxFields fields: one field is any string of Fields, at any
\* position, the others are fixed.
Rows ==
    {<<>>} \cup
    UNION {{[i \in 1..n |-> IF i = k THEN f ELSE FillerField(i)] : k \in 1..n, f \in Fields}
           : n \in 1..MaxFields}

\* ['  "a B" ', ' a '], the shape of ['  "Full Name" ', ' Age '].
HeaderRow == << <<" ", " ", "\"", "a", " ", "B", "\"", " ">>, <<" ", "a", " ">> >>

DataRow == << <<"\"", "a", "\"">>, <<"B", " ", "a">> >>

\* A blank line: csv.reader yields the empty list for it.
BlankRow == <<>>

\* The readers read_header is called on: an empty file, files starting with
\* a blank line, files starting with a header.
Readers == {<<>>, <<BlankRow>>, <<BlankRow, HeaderRow>>, <<HeaderRow>>, <<HeaderRow, DataRow>>}

InitFormat ==
    /\ call = NoCall
    /\ ret = NoRet
    /\ reader \in Readers
    /\ disk = Idle /\ stream = Idle /\ handles = {} /\ fs = Idle /\ env = Idle
    /\ batch = <<>> /\ executed = <<>> /\ pc = "format"

FormatList ==
    /\ pc = "format"
    /\ call = NoCall
    /\ \E v \in {None} \cup {PyList(r) : r \in Rows}, h \in BOOLEAN :
          /\ call' = [op |-> "format_list", input_list |-> v, header |-> h]
          /\ ret' = Return(format_list(v, h))
    /\ UNCHANGED <<reader, disk, stream, handles, fs, env, batch, executed, pc>>

ReadHeader ==
    /\ pc = "format"
    /\ call = NoCall
    /\ call' = [op |-> "read_header", reader |-> reader]
    /\ ret' = read_header(reader)
    /\ reader' = IF reader = <<>> THEN reader ELSE Tail(reader)
    /\ UNCHANGED <<disk, stream, handles, fs, env, batch, executed, pc>>

NextFormat == FormatList \/ ReadHeader

SpecFormat == InitFormat /\ [][NextFormat]_vars

-----------------------------------------------------------------------------
(* Claims about format_list and read_header *)

\* The characters of seq s, as a set.
CharsOf(s) == {s[i] : i \in 1..Len(s)}

\* s without its double quotes.
Unquoted(s) == SelectSeq(s, LAMBDA c : c # "\"")

\* s from its first to its last character that is not whitespace.
Trimmed(s) ==
    LET keep == {i \in 1..Len(s) : s[i] # " " /\ s[i] # "\t"}
    IN  IF keep = {} THEN <<>>
        ELSE SubSeq(s, CHOOSE i \in keep : \A j \in keep : i <= j,
                       CHOOSE i \in keep : \A j \in keep : i >= j)

\* A column identifier: upper case, an underscore for each space.
AsIdentifier(s) ==
    [i \in 1..Len(s) |-> CASE s[i] = " " -> "_" [] s[i] = "a" -> "A" [] OTHER -> s[i]]

ExpectedField(f, header) ==
    IF header THEN AsIdentifier(Trimmed(Unquoted(f))) ELSE Trimmed(Unquoted(f))

\* C1: for a non-empty list of fields format_list returns a list of the same
\* length and order whose i-th field is the i-th input field with every double
\* quote removed and then trimmed of leading and trailing whitespace; with
\* header true it is also upper-cased with every inner space replaced by an
\* underscore, with header false its case and inner spaces are unchanged.
C1_FormatListFields ==
    (call.op = "format_list" /\ call.input_list # None /\ call.input_list.items # <<>>) =>
        /\ ret.kind = "return"
        /\ ret.value # None
        /\ Len(ret.value.items) = Len(call.input_list.items)
        /\ \A i \in 1..Len(call.input_list.items) :
              ret.value.items[i] = ExpectedField(call.input_list.items[i], call.header)

\* A header of two fields, one with a quote, one whose inner space became an
\* underscore, one whose letter was upper-cased.
C1_Witness ==
    /\ call.op = "format_list" /\ call.header
    /\ call.input_list # None /\ Len(call.input_list.items) = 2
    /\ ret.kind = "return" /\ ret.value # None
    /\ \E i \in 1..2 : "\"" \in CharsOf(call.input_list.items[i])
    /\ \E i \in 1..2 : "_" \in CharsOf(ret.value.items[i])
    /\ \E i \in 1..2 : "a" \in CharsOf(call.input_list.items[i]) /\ "A" \in CharsOf(ret.value.items[i])

\* C2: format_list returns None for an empty list and for None, header or
\* not, and returns a list for every list of at least one field.
C2_FormatListAbsent ==
    call.op = "format_list" =>
        /\ ret.kind = "return"
        /\ (call.input_list = None \/ call.input_list = PyList(<<>>)) => ret.value = None
        /\ (call.input_list # None /\ Len(call.input_list.items) >= 1) =>
              (ret.value # None /\ ret.value.type = "list")

\* The empty list, as a header, came back absent.
C2_Witness ==
    /\ call.op = "format_list" /\ call.header
    /\ call.input_list = PyList(<<>>)
    /\ ret = Return(None)

\* The error the specification calls HeaderError, read as widely as it can
\* be: the error that ends the reader counts as one.
HeaderError == {"HeaderError", "StopIteration"}

\* C3: read_header consumes exactly one record and normalizes it as a header;
\* it fails with a HeaderError when that record is absent (no records) or has
\* no fields (blank first line), and never returns an absent or empty column
\* list.
C3_ReadHeaderFailsOnBlankHeader ==
    call.op = "read_header" =>
        /\ (call.reader # <<>>) => reader = Tail(call.reader)
        /\ (call.reader = <<>> \/ Head(call.reader) = <<>>) =>
              (ret.kind = "raise" /\ ret.exc \in HeaderError)
        /\ ret.kind = "return" => (ret.value # None /\ ret.value.items # <<>>)
        /\ (call.reader # <<>> /\ Head(call.reader) # <<>>) =>
              ret = Return(PyList([i \in 1..Len(Head(call.reader)) |->
                                      ExpectedField(Head(call.reader)[i], TRUE)]))

-----------------------------------------------------------------------------
(* open_file *)

MaxEntries == 2

DotZip == <<".", "z", "i", "p">>

DotGz == <<".", "g", "z">>

DotCsv == <<".", "c", "s", "v">>

\* d.csv, d.csv.gz, d.csv.zip, d.zip.csv, dgz, d.gz.zip
Paths ==
    { <<"d">> \o DotCsv,
      <<"d">> \o DotCsv \o DotGz,
      <<"d">> \o DotCsv \o DotZip,
      <<"d">> \o DotZip \o DotCsv,
      <<"d", "g", "z">>,
      <<"d">> \o DotGz \o DotZip }

Texts == {"A,B\n1,2\n", "X\n"}

RECURSIVE EntryLists(_)
EntryLists(n) ==
    IF n = 0 THEN {<<>>}
    ELSE EntryLists(n - 1) \cup {Append(es, t) : es \in {e \in EntryLists(n - 1) : Len(e) = n - 1}, t \in Texts}

\* What may be stored at a path: nothing, a text, the gzip compression of a
\* text, a zip archive of up to MaxEntries entries, or bytes that are none of
\* these.
DiskContents ==
    {[fmt |-> "missing"], [fmt |-> "garbage"]}
    \cup {[fmt |-> "text", text |-> t] : t \in Texts}
    \cup {[fmt |-> "gzip", text |-> t] : t \in Texts}
    \cup {[fmt |-> "zip", entries |-> es] : es \in EntryLists(MaxEntries)}

\* What reading the stream to its end gives.
ReadText(t) == Return([text |-> t])

\* Reading a file as plain text gives its own bytes, whatever they encode.
PlainRead(d) == IF d.fmt = "text" THEN ReadText(d.text) ELSE Return([bytes |-> d])

\* Reading through gzip gives the decompressed text; bytes that are no gzip
\* stream are found out by the first read, not by gzip.open.
GzipRead(d) == IF d.fmt = "gzip" THEN ReadText(d.text) ELSE Raise("BadGzipFile")

\* A faulty variant: the archive's last entry is opened.
zip_last_entry(entries) == entries[Len(entries)]

\* zip_file.infolist()[0]
zip_first_entry(entries) == entries[1]

\* The outcome of open_file(file) with d stored at file: what it returns or
\* raises, the stream, and the handles left open when it is left.
\* "archive" is the file the ZipFile object holds, "entry" the ZipExtFile,
\* "file" the file that open and gzip.open open.
open_file(file, d) ==
    IF str_endswith(file, DotZip) THEN
        IF d.fmt = "missing" THEN
            [ret |-> Raise("FileNotFoundError"), stream |-> Idle, handles |-> {}]
        ELSE IF d.fmt # "zip" THEN
            \* ZipFile's constructor closes the file before it raises
            [ret |-> Raise("BadZipFile"), stream |-> Idle, handles |-> {}]
        ELSE IF d.entries = <<>> THEN
            [ret |-> Raise("IndexError"), stream |-> Idle, handles |-> {"archive"}]
        ELSE
            [ret |-> Return("TextIOWrapper"),
             stream |-> [layer |-> "zip", content |-> ReadText(zip_first_entry(d.entries)),
                         owns |-> {"entry"}],
             handles |-> {"archive", "entry"}]
    ELSE IF str_endswith(file, DotGz) THEN
        IF d.fmt = "missing" THEN
            [ret |-> Raise("FileNotFoundError"), stream |-> Idle, handles |-> {}]
        ELSE
            [ret |-> Return("TextIOWrapper"),
             stream |-> [layer |-> "gzip", content |-> GzipRead(d), owns |-> {"file"}],
             handles |-> {"file"}]
    ELSE
        IF d.fmt = "missing" THEN
            [ret |-> Raise("FileNotFoundError"), stream |-> Idle, handles |-> {}]
        ELSE
            [ret |-> Return("TextIOWrapper"),
             stream |-> [layer |-> "plain", content |-> PlainRead(d), owns |-> {"file"}],
             handles |-> {"file"}]

InitOpen ==
    /\ call = NoCall
    /\ ret = NoRet
    /\ disk \in DiskContents
    /\ stream = Idle /\ handles = {}
    /\ reader = <<>> /\ fs = Idle /\ env = Idle
    /\ batch = <<>> /\ executed = <<>> /\ pc = "open"

OpenFile ==
    /\ pc = "open"
    /\ \E file \in Paths :
          LET r == open_file(file, disk) IN
          /\ call' = [op |-> "open_file", file |-> file]
          /\ ret' = r.ret
          /\ stream' = r.stream
          /\ handles' = r.handles
          /\ pc' = IF r.ret.kind = "return" THEN "opened" ELSE "failed"
    /\ UNCHANGED <<reader, disk, fs, env, batch, executed>>

\* The caller closes the stream it was given.  Closing the wrapper closes the
\* object it wraps: the file, the GzipFile and its file, or the ZipExtFile,
\* which gives up its share of the archive's file and leaves it to the ZipFile.
CloseStream ==
    /\ pc = "opened"
    /\ handles' = handles \ stream.owns
    /\ pc' = "closed"
    /\ UNCHANGED <<call, ret, reader, disk, stream, fs, env, batch, executed>>

\* The ZipFile object is local to open_file and never closed there; its file
\* is closed when the object is finalized, at a time the runtime chooses,
\* once neither the stream nor the exception's traceback refers to it.
Finalize ==
    /\ pc \in {"closed", "failed"}
    /\ "archive" \in handles
    /\ handles' = handles \ {"archive"}
    /\ pc' = "finalized"
    /\ UNCHANGED <<call, ret, reader, disk, stream, fs, env, batch, executed>>

NextOpen == OpenFile \/ CloseStream \/ Finalize

SpecOpen == InitOpen /\ [][NextOpen]_vars

-----------------------------------------------------------------------------
(* Claims about open_file *)

\* p is some prefix followed by suffix.
HasSuffix(p, suffix) == \E k \in 0..Len(p) : p = SubSeq(p, 1, k) \o suffix

\* The path cannot be opened, or what it holds is corrupt for its suffix.
CannotOpen(file, d) ==
    \/ d.fmt = "missing"
    \/ HasSuffix(file, DotZip) /\ (d.fmt # "zip" \/ d.entries = <<>>)
    \/ ~HasSuffix(file, DotZip) /\ HasSuffix(file, DotGz) /\ d.fmt # "gzip"

\* The error the specification calls FileAccessError, read as widely as it
\* can be: any error the libraries raise for a path that cannot be opened or
\* for a corrupt archive or stream.
FileAccessError == {"FileAccessError", "FileNotFoundError", "BadZipFile", "BadGzipFile"}

\* C4: open_file fails with a FileAccessError, and with no other error kind,
\* whenever the path cannot be opened or the zip archive or gzip stream is
\* corrupt (a zip archive with no entries included), on each suffix branch.
C4_OpenFileFailsWithFileAccessError ==
    (call.op = "open_file" /\ CannotOpen(call.file, disk)) =>
        (ret.kind = "raise" /\ ret.exc \in FileAccessError)

\* C5: open_file dispatches on the filename suffix only: a path ending in
\* .zip gives the text of the archive's entry at index 0 and nothing of a
\* later entry, a path ending in .gz gives the gzip-decompressed text, every
\* other path is opened as plain text.
C5_OpenFileDispatch ==
    (call.op = "open_file" /\ ret.kind = "return") =>
        IF HasSuffix(call.file, DotZip) THEN
            /\ stream.layer = "zip"
            /\ stream.content = ReadText(disk.entries[1])
            /\ \A k \in 2..Len(disk.entries) :
                  disk.entries[k] # disk.entries[1] => stream.content # ReadText(disk.entries[k])
        ELSE IF HasSuffix(call.file, DotGz) THEN
            /\ stream.layer = "gzip"
            /\ disk.fmt = "gzip" => stream.content = ReadText(disk.text)
        ELSE
            /\ stream.layer = "plain"
            /\ disk.fmt = "text" => stream.content = ReadText(disk.text)
            /\ disk.fmt # "text" => stream.content = Return([bytes |-> disk])

\* An archive of two different entries was opened.
C5_Witness ==
    /\ call.op = "open_file" /\ ret.kind = "return"
    /\ HasSuffix(call.file, DotZip)
    /\ disk.fmt = "zip" /\ Len(disk.entries) = 2 /\ disk.entries[1] # disk.entries[2]
    /\ stream.content = ReadText(disk.entries[1])

\* C10: every handle open_file acquires is released: once the caller has
\* closed the returned stream no handle opened by open_file remains open (for
\* .zip the archive's and the entry's), and when open_file fails after it
\* acquired a handle, that handle is closed before the error leaves open_file.
C10_OpenFileHandlesReleased ==
    call.op = "open_file" =>
        /\ pc = "closed" => handles = {}
        /\ pc = "failed" => handles = {}

-----------------------------------------------------------------------------
(* find_all_files *)

MaxFiles == 2

\* The code point of a character, for the order sorted() puts paths in.
Ord(c) ==
    CASE c = "*" -> 42 [] c = "." -> 46 [] c = "/" -> 47 [] c = "1" -> 49
      [] c = "?" -> 63 [] c = "[" -> 91 [] c = "]" -> 93 [] c = "a" -> 97
      [] c = "b" -> 98 [] c = "c" -> 99 [] c = "d" -> 100 [] c = "g" -> 103
      [] c = "s" -> 115 [] c = "t" -> 116 [] c = "v" -> 118 [] c = "x" -> 120
      [] c = "z" -> 122

\* a < b in the order of Python strings.
RECURSIVE str_less(_, _)
str_less(a, b) ==
    IF b = <<>> THEN FALSE
    ELSE IF a = <<>> THEN TRUE
    ELSE IF Head(a) = Head(b) THEN str_less(Tail(a), Tail(b))
    ELSE Ord(Head(a)) < Ord(Head(b))

\* sorted(), of a list without duplicates given as the set of its items.
RECURSIVE sorted(_)
sorted(S) ==
    IF S = {} THEN <<>>
    ELSE LET m == CHOOSE x \in S : \A y \in S \ {x} : str_less(x, y)
         IN  <<m>> \o sorted(S \ {m})

\* glob.has_magic
has_magic(s) == \E i \in 1..Len(s) : s[i] \in {"*", "?", "["}

\* The index of the last "/" of a path, 0 when it has none.
LastSlash(s) ==
    LET at == {i \in 1..Len(s) : s[i] = "/"}
    IN  IF at = {} THEN 0 ELSE CHOOSE i \in at : \A j \in at : j <= i

\* os.path.split
path_dirname(s) == IF LastSlash(s) = 0 THEN <<>> ELSE SubSeq(s, 1, LastSlash(s) - 1)

path_basename(s) == SubSeq(s, LastSlash(s) + 1, Len(s))

\* os.path.join
path_join(d, n) == d \o <<"/">> \o n

\* The index of the "]" that closes the character class opened at pat[1],
\* 0 when none does: the class holds at least one character.
ClassEnd(pat) ==
    LET at == {i \in 3..Len(pat) : pat[i] = "]"}
    IN  IF at = {} THEN 0 ELSE CHOOSE i \in at : \A j \in at : i <= j

\* fnmatch.fnmatchcase: * any characters, ? one character, [seq] one
\* character of seq, anything else itself.
RECURSIVE fnmatch(_, _)
fnmatch(name, pat) ==
    IF pat = <<>> THEN name = <<>>
    ELSE IF Head(pat) = "*" THEN
        fnmatch(name, Tail(pat)) \/ (name # <<>> /\ fnmatch(Tail(name), pat))
    ELSE IF Head(pat) = "?" THEN
        name # <<>> /\ fnmatch(Tail(name), Tail(pat))
    ELSE IF Head(pat) = "[" /\ ClassEnd(pat) # 0 THEN
        /\ name # <<>>
        /\ Head(name) \in {pat[i] : i \in 2..(ClassEnd(pat) - 1)}
        /\ fnmatch(Tail(name), SubSeq(pat, ClassEnd(pat) + 1, Len(pat)))
    ELSE
        name # <<>> /\ Head(name) = Head(pat) /\ fnmatch(Tail(name), Tail(pat))

\* glob._ishidden
ishidden(s) == s # <<>> /\ s[1] = "."

\* The file system: the directories of the working directory, each absent or
\* holding a set of file names.
Absent == [exists |-> FALSE]

Holding(names) == [exists |-> TRUE, names |-> names]

\* os.path.isdir
isdir(f, path) == path \in DOMAIN f /\ f[path].exists

\* os.listdir, empty for what is no directory
listdir(f, path) == IF isdir(f, path) THEN f[path].names ELSE {}

\* The names of the working directory
topnames(f) == {d \in DOMAIN f : f[d].exists}

\* glob._glob1: the names of a directory that match a pattern; a name that
\* starts with a dot matches only a pattern that starts with a dot.
glob1(names, pattern) ==
    {n \in names : (ishidden(pattern) \/ ~ishidden(n)) /\ fnmatch(n, pattern)}

\* glob._glob0: a name without wildcards matches itself, if it exists.
glob0(names, basename) == {n \in names : n = basename}

\* glob.glob, for a pattern of at most two components.
glob(f, pathname) ==
    LET dirname == path_dirname(pathname)
        basename == path_basename(pathname)
        dirs == IF has_magic(dirname) THEN glob1(topnames(f), dirname) ELSE {dirname}
    IN  IF ~has_magic(pathname) THEN
            IF dirname = <<>> THEN glob0(topnames(f), pathname)
            ELSE {path_join(dirname, n) : n \in glob0(listdir(f, dirname), basename)}
        ELSE IF dirname = <<>> THEN glob1(topnames(f), basename)
        ELSE UNION {{path_join(d, n) :
                        n \in IF has_magic(basename) THEN glob1(listdir(f, d), basename)
                              ELSE glob0(listdir(f, d), basename)}
                    : d \in dirs}

CsvGlob == <<"/", "*">> \o DotCsv \o <<"*">>

find_all_files(f, pattern) ==
    sorted(glob(f, IF isdir(f, pattern) THEN pattern \o CsvGlob ELSE pattern))

\* d, d1, d[1]
DirNames == {<<"d">>, <<"d", "1">>, <<"d", "[", "1", "]">>}

\* a.csv, b.csv.gz, .csv, c.txt, acsv
FileNames ==
    { <<"a">> \o DotCsv, <<"b">> \o DotCsv \o DotGz, DotCsv,
      <<"c", ".", "t", "x", "t">>, <<"a", "c", "s", "v">> }

\* The directories of the model and d/*.csv, d/a.csv, d?/a*, x
Patterns ==
    DirNames \cup
    { <<"d", "/", "*">> \o DotCsv, <<"d", "/", "a">> \o DotCsv,
      <<"d", "?", "/", "a", "*">>, <<"x">> }

InitFind ==
    /\ call = NoCall
    /\ ret = NoRet
    /\ fs \in [DirNames -> {Absent} \cup
                 {Holding(ns) : ns \in {x \in SUBSET FileNames : Cardinality(x) <= MaxFiles}}]
    /\ reader = <<>> /\ disk = Idle /\ stream = Idle /\ handles = {} /\ env = Idle
    /\ batch = <<>> /\ executed = <<>> /\ pc = "find"

FindAllFiles ==
    /\ pc = "find"
    /\ call = NoCall
    /\ \E pattern \in Patterns :
          /\ call' = [op |-> "find_all_files", pattern |-> pattern]
          /\ ret' = Return(PyList(find_all_files(fs, pattern)))
    /\ UNCHANGED <<reader, disk, stream, handles, fs, env, batch, executed, pc>>

NextFind == FindAllFiles

SpecFind == InitFind /\ [][NextFind]_vars

-----------------------------------------------------------------------------
(* Claims about find_all_files *)

\* name matches *.csv* as a file name pattern: it holds ".csv", and does not
\* start with a dot, which a leading * does not match.
MatchesCsv(name) ==
    /\ \E i \in 1..Len(name) : i + 3 <= Len(name) /\ SubSeq(name, i, i + 3) = DotCsv
    /\ name[1] # "."

ItemsOf(l) == {l[i] : i \in 1..Len(l)}

IsSorted(l) == \A i, j \in 1..Len(l) : i < j => str_less(l[i], l[j])

\* C6: for every existing directory D find_all_files(D) returns exactly the
\* paths in D whose names match *.csv* (no other, none missing, none twice),
\* sorted; a pattern that is no existing directory is globbed unchanged and
\* the result is sorted as well.
C6_FindAllFilesExact ==
    call.op = "find_all_files" =>
        /\ IsSorted(ret.value.items)
        /\ isdir(fs, call.pattern) =>
              ItemsOf(ret.value.items) =
                  {path_join(call.pattern, n) : n \in {x \in fs[call.pattern].names : MatchesCsv(x)}}
        /\ ~isdir(fs, call.pattern) => ItemsOf(ret.value.items) = glob(fs, call.pattern)

-----------------------------------------------------------------------------
(* get_default_db_port and get_db_connection *)

PyStr(x) == [type |-> "str", value |-> x]

\* DBType's values
ORACLE == "oracle"

MYSQL == "mysql"

POSTGRES == "postgres"

DB2 == "db2"

\* The tags of the model: DBType's values, and two that are none of them.
Tags == {ORACLE, MYSQL, POSTGRES, DB2, "sqlite", "ORACLE"}

\* A faulty variant: the db2 branch is missing.
get_default_db_port_no_db2(db_type) ==
    IF db_type = ORACLE THEN PyStr("1521")
    ELSE IF db_type = MYSQL THEN PyStr("3306")
    ELSE IF db_type = POSTGRES THEN PyStr("5432")
    ELSE None

\* The function ends without a return for any other tag: None.
get_default_db_port(db_type) ==
    IF db_type = ORACLE THEN PyStr("1521")
    ELSE IF db_type = MYSQL THEN PyStr("3306")
    ELSE IF db_type = POSTGRES THEN PyStr("5432")
    ELSE IF db_type = DB2 THEN PyStr("50000")
    ELSE None

\* The driver modules the branches import.
Modules == {"cx_Oracle", "mysql.connector", "psycopg2", "ibm_db", "ibm_db_dbi"}

\* The password the database server accepts.
Accepted(password) == password = "secret"

\* int(port)
IsNumeric(port) == port.type = "str" /\ port.value \in {"1521", "3306", "5432", "50000"}

\* What each branch does once its imports succeeded: the error of the
\* expression that builds the arguments, or the driver's connect, which
\* raises the driver's own error when the server rejects the credentials.
driver_connect(db_type, password, port) ==
    IF db_type = ORACLE THEN
        IF port = None THEN Raise("TypeError")            \* host + ":" + port
        ELSE IF Accepted(password) THEN Return("cx_Oracle.Connection")
        ELSE Raise("cx_Oracle.DatabaseError")
    ELSE IF db_type = MYSQL THEN
        IF port = None THEN Raise("TypeError")            \* int(port)
        ELSE IF ~IsNumeric(port) THEN Raise("ValueError")
        ELSE IF Accepted(password) THEN Return("mysql.connector.MySQLConnection")
        ELSE Raise("mysql.connector.errors.ProgrammingError")
    ELSE IF db_type = POSTGRES THEN
        IF Accepted(password) /\ IsNumeric(port) THEN Return("psycopg2.connection")
        ELSE Raise("psycopg2.OperationalError")
    ELSE
        IF Accepted(password) /\ IsNumeric(port) THEN Return("ibm_db_dbi.Connection")
        ELSE Raise("Exception")

\* The modules a branch imports before it connects.
Imports(db_type) ==
    IF db_type = ORACLE THEN {"cx_Oracle"}
    ELSE IF db_type = MYSQL THEN {"mysql.connector"}
    ELSE IF db_type = POSTGRES THEN {"psycopg2"}
    ELSE IF db_type = DB2 THEN {"ibm_db", "ibm_db_dbi"}
    ELSE {}

\* The try block: an import of a module that is not installed raises
\* ModuleNotFoundError; a tag that is no DBType value raises ValueError.
try_connect(db_type, password, port, installed) ==
    IF db_type \notin {ORACLE, MYSQL, POSTGRES, DB2} THEN Raise("ValueError")
    ELSE IF ~(Imports(db_type) \subseteq installed) THEN Raise("ModuleNotFoundError")
    ELSE driver_connect(db_type, password, port)

\* A faulty variant: no except clause, the import's error leaves as it is.
get_db_connection_no_except(db_type, password, port, installed) ==
    try_connect(db_type, password, port, installed)

\* except ModuleNotFoundError: raise ConnectionError(...); everything else
\* the try block returns or raises leaves get_db_connection unchanged.
get_db_connection(db_type, password, port, installed) ==
    LET r == try_connect(db_type, password, port, installed)
    IN  IF r = Raise("ModuleNotFoundError") THEN Raise("ConnectionError") ELSE r

InitDb ==
    /\ call = NoCall
    /\ ret = NoRet
    /\ env \in [installed : SUBSET Modules]
    /\ reader = <<>> /\ disk = Idle /\ stream = Idle /\ handles = {} /\ fs = Idle
    /\ batch = <<>> /\ executed = <<>> /\ pc = "db"

GetDefaultDbPort ==
    /\ pc = "db"
    /\ call = NoCall
    /\ \E db_type \in Tags :
          /\ call' = [op |-> "get_default_db_port", db_type |-> db_type]
          /\ ret' = Return(get_default_db_port(db_type))
    /\ UNCHANGED <<reader, disk, stream, handles, fs, env, batch, executed, pc>>

GetDbConnection ==
    /\ pc = "db"
    /\ call = NoCall
    /\ \E db_type \in Tags, password \in {"secret", "wrong"},
          port \in {None, PyStr("5432"), PyStr("abc")} :
          /\ call' = [op |-> "get_db_connection", db_type |-> db_type,
                      password |-> password, port |-> port]
          /\ ret' = get_db_connection(db_type, password, port, env.installed)
    /\ UNCHANGED <<reader, disk, stream, handles, fs, env, batch, executed, pc>>

NextDb == GetDefaultDbPort \/ GetDbConnection

SpecDb == InitDb /\ [][NextDb]_vars

-----------------------------------------------------------------------------
(* Claims about get_db_connection and get_default_db_port *)

Backends == {"oracle", "mysql", "postgres", "db2"}

\* The driver of a backend is unavailable: a module it needs is not installed.
DriverUnavailable(db_type) ==
    \/ db_type = "oracle" /\ "cx_Oracle" \notin env.installed
    \/ db_type = "mysql" /\ "mysql.connector" \notin env.installed
    \/ db_type = "postgres" /\ "psycopg2" \notin env.installed
    \/ db_type = "db2" /\ ({"ibm_db", "ibm_db_dbi"} \ env.installed) # {}

\* C7: get_db_connection fails with a ConnectionError whenever the selected
\* backend's driver is unavailable or the credentials are rejected, for each
\* of the four backend tags; no connection failure surfaces as another kind.
C7_ConnectFailsWithConnectionError ==
    (call.op = "get_db_connection" /\ call.db_type \in Backends) =>
        /\ (DriverUnavailable(call.db_type) \/ call.password # "secret") =>
              ret = Raise("ConnectionError")
        /\ ret.kind = "raise" => ret.exc = "ConnectionError"

\* C7, amended: get_db_connection fails with a ConnectionError whenever the
\* selected backend's driver module is not installed, for each of the four
\* backend tags, and only then; when the driver is installed and the
\* credentials are rejected, the call fails with an error that is not a
\* ConnectionError (the driver's own, or that of building its arguments).
C7_ConnectionErrorIffDriverMissing ==
    (call.op = "get_db_connection" /\ call.db_type \in Backends) =>
        /\ DriverUnavailable(call.db_type) => ret = Raise("ConnectionError")
        /\ ret = Raise("ConnectionError") => DriverUnavailable(call.db_type)
        /\ (~DriverUnavailable(call.db_type) /\ call.password # "secret") =>
              (ret.kind = "raise" /\ ret.exc # "ConnectionError")

\* db2 with one of its two modules missing failed with a ConnectionError.
C7_Witness ==
    /\ call.op = "get_db_connection" /\ call.db_type = "db2"
    /\ "ibm_db" \in env.installed /\ "ibm_db_dbi" \notin env.installed
    /\ ret = Raise("ConnectionError")

\* The default port table of the specification.
DefaultPort ==
    [t \in Backends |->
        CASE t = "oracle" -> "1521" [] t = "mysql" -> "3306"
          [] t = "postgres" -> "5432" [] t = "db2" -> "50000"]

\* get_db_connection accepts a tag: with the drivers installed and good
\* arguments it does not refuse it.
AcceptsTag(t) == get_db_connection(t, "secret", PyStr("5432"), Modules).kind = "return"

\* C8: get_default_db_port maps oracle to "1521", mysql to "3306", postgres to
\* "5432", db2 to "50000", as strings; so an unset port resolves to a defined
\* port for every backend get_db_connection accepts.
C8_DefaultPorts ==
    call.op = "get_default_db_port" =>
        /\ call.db_type \in Backends => ret = Return(PyStr(DefaultPort[call.db_type]))
        /\ AcceptsTag(call.db_type) => (ret.value # None /\ ret.value.type = "str")

\* db2's default port was asked for and is "50000".
C8_Witness ==
    /\ call.op = "get_default_db_port" /\ call.db_type = "db2"
    /\ AcceptsTag("db2")
    /\ ret = Return(PyStr("50000"))

-----------------------------------------------------------------------------
(* The batch loader of one file, as the specification describes it:          *)
(* OPEN -> READ_HEADER -> {READ_ROW -> BUFFER}* -> FLUSH -> CLOSE.           *)
(* It reads the header with read_header and every row with format_list.      *)

MaxRows == 5

MaxBatch == 2

DataRow2 == << <<" ", "B">>, <<"a", "\t">> >>

RECURSIVE SeqsUpTo(_, _)
SeqsUpTo(S, n) ==
    IF n = 0 THEN {<<>>}
    ELSE SeqsUpTo(S, n - 1) \cup
         {Append(q, x) : q \in {r \in SeqsUpTo(S, n - 1) : Len(r) = n - 1}, x \in S}

\* The files loaded: an empty file, a file of one blank line, and a header
\* followed by up to MaxRows rows, blank ones among them.
LoadFiles ==
    {<<>>, <<BlankRow>>} \cup
    {<<HeaderRow>> \o rows : rows \in SeqsUpTo({BlankRow, DataRow, DataRow2}, MaxRows)}

InitLoad ==
    /\ reader \in LoadFiles
    /\ call = [op |-> "load_file", rows |-> reader]
    /\ ret = NoRet
    /\ env \in [batch_size : 1..MaxBatch]
    /\ batch = <<>>
    /\ executed = <<>>
    /\ pc = "READ_HEADER"
    /\ disk = Idle /\ stream = Idle /\ handles = {} /\ fs = Idle

\* READ_HEADER: one record is read by read_header; an absent record or one
\* without fields aborts this file.
LoadReadHeader ==
    /\ pc = "READ_HEADER"
    /\ ret' = read_header(reader)
    /\ reader' = IF reader = <<>> THEN reader ELSE Tail(reader)
    /\ pc' = IF ret'.kind = "return" /\ ret'.value # None THEN "READ_ROW" ELSE "SKIPPED"
    /\ UNCHANGED <<call, disk, stream, handles, fs, env, batch, executed>>

\* READ_ROW and BUFFER: the next row is formatted; an absent record is
\* skipped, any other is appended to the batch, and a batch that has reached
\* the maximum size is flushed.  FLUSH invokes executeBatch once with the
\* buffered records and clears the batch; the invocation succeeds, or fails
\* with a DatabaseError, which aborts the run.
LoadReadRow ==
    /\ pc = "READ_ROW"
    /\ reader # <<>>
    /\ reader' = Tail(reader)
    /\ LET rec == format_list(PyList(Head(reader)), FALSE)
           buffered == IF rec = None THEN batch ELSE Append(batch, rec.items)
       IN  IF rec # None /\ Len(buffered) >= env.batch_size THEN
               /\ executed' = Append(executed, buffered)
               /\ batch' = <<>>
               /\ \E ok \in BOOLEAN : pc' = IF ok THEN "READ_ROW" ELSE "FAILED"
           ELSE
               /\ batch' = buffered
               /\ UNCHANGED <<executed, pc>>
    /\ UNCHANGED <<call, ret, disk, stream, handles, fs, env>>

\* End of file: the remaining partial batch is flushed (nothing is executed
\* for an empty one) and the file is closed.
LoadEndOfFile ==
    /\ pc = "READ_ROW"
    /\ reader = <<>>
    /\ IF batch # <<>> THEN
           /\ executed' = Append(executed, batch)
           /\ batch' = <<>>
           /\ \E ok \in BOOLEAN : pc' = IF ok THEN "CLOSED" ELSE "FAILED"
       ELSE
           /\ pc' = "CLOSED"
           /\ UNCHANGED <<executed, batch>>
    /\ UNCHANGED <<call, ret, reader, disk, stream, handles, fs, env>>

NextLoad == LoadReadHeader \/ LoadReadRow \/ LoadEndOfFile

SpecLoad == InitLoad /\ [][NextLoad]_vars

-----------------------------------------------------------------------------
(* Claims about the batch loader *)

RECURSIVE Flatten(_)
Flatten(ss) == IF ss = <<>> THEN <<>> ELSE Head(ss) \o Flatten(Tail(ss))

\* The data rows of the file being loaded: the rows after the header that are
\* not blank, normalized as records, in document order.
DataRecords ==
    LET rows == SelectSeq(Tail(call.rows), LAMBDA r : r # <<>>)
    IN  [i \in 1..Len(rows) |-> [j \in 1..Len(rows[i]) |-> ExpectedField(rows[i][j], FALSE)]]

\* C9: while a file is loaded with maximum batch size B, every executeBatch
\* invocation carries at most B records, a flush is issued as soon as the
\* buffer reaches B, the remaining partial batch is flushed at end of file,
\* and the batches concatenated are the data rows in document order; with
\* B = 2 and 5 data rows there are exactly 3 invocations, of sizes 2, 2, 1.
C9_BatchFlush ==
    call.op = "load_file" =>
        /\ \A i \in 1..Len(executed) :
              Len(executed[i]) >= 1 /\ Len(executed[i]) <= env.batch_size
        /\ \A i \in 1..(Len(executed) - 1) : Len(executed[i]) = env.batch_size
        /\ Len(batch) < env.batch_size
        /\ pc = "CLOSED" =>
              /\ batch = <<>>
              /\ Flatten(executed) = DataRecords
        /\ (pc = "CLOSED" /\ env.batch_size = 2 /\ Len(DataRecords) = 5) =>
              [i \in 1..Len(executed) |-> Len(executed[i])] = <<2, 2, 1>>

\* A file of 5 data rows was loaded in batches of at most 2, in 3 batches.
C9_Witness ==
    /\ call.op = "load_file" /\ pc = "CLOSED"
    /\ env.batch_size = 2 /\ Len(DataRecords) = 5
    /\ Len(executed) = 3 /\ Len(executed[3]) = 1

====
